---- MODULE Spec2Model ----
(***************************************************************************)
(* Receipt extraction pipeline of flyer-sync-backend: parseReceiptImage    *)
(* (src/gemini.ts).  One invocation is modelled as a state machine: the    *)
(* credential check, the inference call wrapped in callWithRetry, the      *)
(* backoff timer, and the synchronous continuation that extracts the       *)
(* response text, isolates the JSON object, parses it and returns.         *)
(*                                                                         *)
(* A JavaScript string is a sequence of one-character strings.  The texts  *)
(* the inference service sends are built from four lexemes:                *)
(*   "{"  "}"   the braces of a JSON object                                *)
(*   "k"        a member key with its colon (a key other than "items")     *)
(*   "p"        a character of prose (never part of valid JSON)            *)
(***************************************************************************)
EXTENDS Integers, Sequences, FiniteSets, TLC

VARIABLES
    genAI,          \* TRUE iff the module-level client was constructed (API key set)
    pc,             \* "start" | "calling" | "waiting" | "done"
    retries,        \* callWithRetry's parameter `retries` in the current frame
    delay,          \* callWithRetry's parameter `delay` in the current frame
    attempts,       \* outcome of every generateContent call made, in order
    waits,          \* delay of every backoff timer set, in order
    result,         \* the response generateContent resolved with
    content,        \* the text extracted from the response
    jsonContent,    \* the slice handed to JSON.parse
    parseAttempted, \* TRUE iff JSON.parse was called
    returned,       \* the ParsedReceipt the promise resolved with
    thrown,         \* the error the promise rejected with
    failedAt,       \* the throw site that raised it
    upstreamItems,  \* parsed.items as JSON.parse delivered it
    upstreamCurrency, \* parsed.currency as JSON.parse delivered it
    imageBase64,    \* the argument of parseReceiptImage
    mimeType,       \* the MIME type sniffed from it
    invocations,    \* the state of each of several concurrent parseReceiptImage calls
    db,             \* the tables the routers and the trigger read and write
    sessions        \* the router calls in flight, each with its position and locals

\* the variables of the item clean-up and of the MIME sniffing, studied apart
\* from the invocation's control flow
itemVars == <<upstreamItems, upstreamCurrency>>
sniffVars == <<imageBase64, mimeType>>
pairVars == <<invocations>>
dbVars == <<db, sessions>>

pipelineVars == <<genAI, pc, retries, delay, attempts, waits, result, content,
                  jsonContent, parseAttempted, returned, thrown, failedAt>>

vars == <<pipelineVars, itemVars, sniffVars, pairVars, dbVars>>

----------------------------------------------------------------------------
(* Bounds of the model and constants of the program *)

MaxTextLen == 5
MaxCands == 2
Retries == 3
InitialDelay == 2000
RateLimited == 429

Chars == {"{", "}", "k", "p"}

----------------------------------------------------------------------------
(* JavaScript string primitives *)

\* String.prototype.indexOf for a one-character needle: 0-based, -1 if absent
IndexOf(s, c) ==
    IF \E i \in 1..Len(s) : s[i] = c
    THEN (CHOOSE i \in 1..Len(s) : s[i] = c /\ \A j \in 1..(i-1) : s[j] # c) - 1
    ELSE -1

\* String.prototype.lastIndexOf for a one-character needle
LastIndexOf(s, c) ==
    IF \E i \in 1..Len(s) : s[i] = c
    THEN (CHOOSE i \in 1..Len(s) : s[i] = c /\ \A j \in (i+1)..Len(s) : s[j] # c) - 1
    ELSE -1

\* Mutant of the slice: the closing brace is left out
SubstringShort(s, from, to) == SubSeq(s, from + 1, to - 1)

\* String.prototype.substring(from, to) for 0 <= from <= to <= length
Substring(s, from, to) == SubSeq(s, from + 1, to)

\* Array.prototype.join("") of a sequence of strings
RECURSIVE Join(_)
Join(ss) == IF ss = <<>> THEN <<>> ELSE Head(ss) \o Join(Tail(ss))

----------------------------------------------------------------------------
(* JSON.parse on the lexemes.  An object is "{" member* "}", a member is   *)
(* the key lexeme followed by a value, a value is an object.  The parsed   *)
(* object is the sequence of its members' values.                          *)

EndOfInputMsg == "Unexpected end of JSON input"
UnexpectedTokenMsg == "Unexpected token in JSON"

JsonFail(m) == [ok |-> FALSE, message |-> m, value |-> <<>>]

RECURSIVE JsonScan(_, _, _, _)
JsonScan(s, i, mode, stack) ==
    IF i > Len(s) THEN JsonFail(EndOfInputMsg)
    ELSE IF mode = "value"
    THEN IF s[i] = "{"
         THEN JsonScan(s, i + 1, "members", Append(stack, <<>>))
         ELSE JsonFail(UnexpectedTokenMsg)
    ELSE IF s[i] = "k"
    THEN JsonScan(s, i + 1, "value", stack)
    ELSE IF s[i] = "}"
    THEN LET obj == stack[Len(stack)]
             rest == SubSeq(stack, 1, Len(stack) - 1)
         IN  IF rest = <<>>
             THEN IF i = Len(s)
                  THEN [ok |-> TRUE, message |-> "", value |-> obj]
                  ELSE JsonFail(UnexpectedTokenMsg)
             ELSE JsonScan(s, i + 1, "members",
                           [rest EXCEPT ![Len(rest)] = Append(@, obj)])
    ELSE JsonFail(UnexpectedTokenMsg)

JSONParse(s) == JsonScan(s, 1, "value", <<>>)

----------------------------------------------------------------------------
(* The shapes a generateContent response can take.                         *)
(*   text       : the `text` member: absent, a string, a function          *)
(*                returning a string, or a function that throws            *)
(*   response   : the `response` wrapper, with its own text and candidates *)
(*   candidates : the candidate list; a candidate may lack content.parts,  *)
(*                and a part may lack text (inline data, a function call)  *)

Accessor(kind, value) == [kind |-> kind, value |-> value]
NoAccessor == Accessor("absent", <<>>)
ThrowingAccessor == Accessor("throws", <<>>)

\* a part is an object with or without text, or null (reading a member of it
\* is a TypeError)
TextPart(t) == [hasText |-> TRUE, text |-> t, isNull |-> FALSE]
NoTextPart == [hasText |-> FALSE, text |-> <<>>, isNull |-> FALSE]
NullPart == [hasText |-> FALSE, text |-> <<>>, isNull |-> TRUE]

Candidate(parts) == [hasParts |-> TRUE, parts |-> parts]
NoPartsCandidate == [hasParts |-> FALSE, parts |-> <<>>]

CandidateList(list) == [present |-> TRUE, list |-> list]
NoCandidates == [present |-> FALSE, list |-> <<>>]

Wrapper(text, candidates) == [present |-> TRUE, text |-> text, candidates |-> candidates]
NoWrapper == [present |-> FALSE, text |-> NoAccessor, candidates |-> NoCandidates]

Response(text, response, candidates) ==
    [text |-> text, response |-> response, candidates |-> candidates]
NoResponse == Response(NoAccessor, NoWrapper, NoCandidates)

SeqsUpTo(S, n) == UNION {[1..m -> S] : m \in 0..n}

\* Texts that tell the slots of a response apart
AccessorText == <<"{", "}">>
WrapperText == <<"p", "{", "}">>
WrapperPartText == <<"{", "}", "p">>
FirstPartText == <<"{", "k", "{", "}", "}">>
OtherPartText == <<"p">>

TextAccessors ==
    {NoAccessor, ThrowingAccessor}
      \cup {Accessor(k, t) : k \in {"function", "string"}, t \in {<<>>, AccessorText}}

WrapperAccessors ==
    {NoAccessor, ThrowingAccessor, Accessor("function", <<>>), Accessor("function", WrapperText)}

WrapperCandidates ==
    {NoCandidates}
      \cup {CandidateList(<<c>>) :
              c \in {NoPartsCandidate, Candidate(<<NoTextPart>>),
                     Candidate(<<TextPart(WrapperPartText)>>)}}

Wrappers ==
    {NoWrapper} \cup {Wrapper(t, c) : t \in WrapperAccessors, c \in WrapperCandidates}

ShapeCandidates ==
    {NoPartsCandidate, Candidate(<<NoTextPart>>),
     Candidate(<<TextPart(FirstPartText)>>), Candidate(<<TextPart(OtherPartText)>>)}

TopCandidates ==
    {NoCandidates} \cup {CandidateList(l) : l \in SeqsUpTo(ShapeCandidates, MaxCands)}

\* Every combination of the slots, each with a text of its own
ShapeResponses ==
    {Response(t, w, c) : t \in TextAccessors, w \in Wrappers, c \in TopCandidates}

\* One candidate whose parts are single characters: every text up to MaxTextLen
TextResponses ==
    {Response(NoAccessor, NoWrapper,
              CandidateList(<<Candidate([i \in 1..Len(t) |-> TextPart(<<t[i]>>)])>>)) :
        t \in SeqsUpTo(Chars, MaxTextLen)}

\* Candidates one of whose parts is null, after or before a part with text
NullPartCandidates ==
    {Candidate(<<TextPart(FirstPartText), NullPart>>),
     Candidate(<<TextPart(OtherPartText), NullPart>>),
     Candidate(<<NullPart, TextPart(FirstPartText)>>)}

TextlessCandidates == {NoPartsCandidate, Candidate(<<NoTextPart>>)}

\* Candidate lists with a null part: in the first candidate, or in the second
\* behind a candidate without text, alone or followed by a candidate with text
NullPartLists ==
    {<<c>> : c \in NullPartCandidates}
      \cup {<<n, c>> : n \in TextlessCandidates, c \in NullPartCandidates}
      \cup {<<n, c, Candidate(<<TextPart(FirstPartText)>>)>> :
                n \in TextlessCandidates, c \in NullPartCandidates}

\* Responses whose candidates hold a null part, at the top level or in the wrapper
NullPartResponses ==
    {Response(NoAccessor, NoWrapper, CandidateList(l)) : l \in NullPartLists}
      \cup {Response(NoAccessor, Wrapper(NoAccessor, CandidateList(<<c>>)), t) :
                c \in NullPartCandidates,
                t \in {NoCandidates, CandidateList(<<Candidate(<<TextPart(FirstPartText)>>)>>)}}

Responses == ShapeResponses \cup TextResponses \cup NullPartResponses

----------------------------------------------------------------------------
(* Exhaustive text extraction (gemini.ts 164-204).  Every probe gives the  *)
(* text it assigns to `content` and whether it threw.                      *)

Yield(t) == [text |-> t, threw |-> FALSE]
Threw == [text |-> <<>>, threw |-> TRUE]
\* the probe threw after it had put t into `content`
ThrewAfter(t) == [text |-> t, threw |-> TRUE]

\* parts.map(part => part.text || "").join("")
PartsText(parts) ==
    Join([i \in 1..Len(parts) |-> IF parts[i].hasText THEN parts[i].text ELSE <<>>])

\* candidates?.[0]?.content?.parts, mapped and joined when present; the
\* callback throws on a null part before anything is assigned to `content`
FirstCandidateText(cands) ==
    IF cands.present /\ cands.list # <<>> /\ cands.list[1].hasParts
    THEN IF \E i \in 1..Len(cands.list[1].parts) : cands.list[1].parts[i].isNull
         THEN Threw
         ELSE Yield(PartsText(cands.list[1].parts))
    ELSE Yield(<<>>)

\* for (const part of cand.content.parts) if (part.text) content += part.text
RECURSIVE GatherParts(_, _, _)
GatherParts(parts, i, text) ==
    IF i > Len(parts) THEN Yield(text)
    ELSE IF parts[i].isNull THEN ThrewAfter(text)
    ELSE GatherParts(parts, i + 1,
                     text \o (IF parts[i].hasText THEN parts[i].text ELSE <<>>))

\* for (const cand of result.candidates) if (cand.content?.parts) ...
RECURSIVE GatherCandidates(_, _, _)
GatherCandidates(list, i, text) ==
    IF i > Len(list) THEN Yield(text)
    ELSE IF ~list[i].hasParts THEN GatherCandidates(list, i + 1, text)
    ELSE LET gathered == GatherParts(list[i].parts, 1, text)
         IN  IF gathered.threw THEN gathered
             ELSE GatherCandidates(list, i + 1, gathered.text)

\* (a) typeof result.text === 'function'
ProbeTextFunction(r) ==
    IF r.text.kind = "function" THEN Yield(r.text.value)
    ELSE IF r.text.kind = "throws" THEN Threw
    ELSE Yield(<<>>)

\* (b) typeof result.text === 'string'
ProbeTextString(r) ==
    IF r.text.kind = "string" THEN Yield(r.text.value) ELSE Yield(<<>>)

\* (c) result.response: its text() when callable, else its first candidate's parts
ProbeWrapper(r) ==
    IF ~r.response.present THEN Yield(<<>>)
    ELSE IF r.response.text.kind = "function" THEN Yield(r.response.text.value)
    ELSE IF r.response.text.kind = "throws" THEN Threw
    ELSE FirstCandidateText(r.response.candidates)

\* (d) result.candidates[0].content.parts
ProbeFirstCandidate(r) == FirstCandidateText(r.candidates)

\* (e) every candidate's parts, text fragments appended in order
ProbeAllCandidates(r) ==
    IF ~r.candidates.present THEN Yield(<<>>)
    ELSE GatherCandidates(r.candidates.list, 1, <<>>)

\* The probes in the order the code runs them
Probes(r) ==
    <<ProbeTextFunction(r), ProbeTextString(r), ProbeWrapper(r),
      ProbeFirstCandidate(r), ProbeAllCandidates(r)>>

\* Mutants of the try block: a throwing probe is skipped and the next one
\* runs; the candidate lists of the result itself are never probed
RECURSIVE RunProbesPastThrow(_, _, _)
RunProbesPastThrow(probes, i, text) ==
    IF i > Len(probes) THEN text
    ELSE IF text # <<>> THEN text
    ELSE RunProbesPastThrow(probes, i + 1, probes[i].text)

RECURSIVE RunProbesNoFallback(_, _, _)
RunProbesNoFallback(probes, i, text) ==
    IF i > 3 THEN text
    ELSE IF text # <<>> THEN text
    ELSE IF probes[i].threw THEN text
    ELSE RunProbesNoFallback(probes, i + 1, probes[i].text)

\* Mutant of the try block: what a probe gathered before it threw is dropped
RECURSIVE RunProbesDropGathered(_, _, _)
RunProbesDropGathered(probes, i, text) ==
    IF i > Len(probes) THEN text
    ELSE IF text # <<>> THEN text
    ELSE IF probes[i].threw THEN <<>>
    ELSE RunProbesDropGathered(probes, i + 1, probes[i].text)

\* The try block: a probe runs only while `content` is falsy; an exception
\* leaves `content` as the probe had it and ends the block
RECURSIVE RunProbes(_, _, _)
RunProbes(probes, i, text) ==
    IF i > Len(probes) THEN text
    ELSE IF text # <<>> THEN text
    ELSE IF probes[i].threw THEN probes[i].text
    ELSE RunProbes(probes, i + 1, probes[i].text)

ExtractContent(r) == RunProbes(Probes(r), 1, <<>>)

----------------------------------------------------------------------------
(* JavaScript values as JSON.parse delivers them, and the coercions the    *)
(* item clean-up applies to them.  Numbers are integers, NaN or an         *)
(* infinity (JSON.parse("1e999") is Infinity); a string is its characters. *)

JsValue(t, n, s) == [t |-> t, n |-> n, s |-> s]
Undefined == JsValue("undefined", 0, <<>>)
Null == JsValue("null", 0, <<>>)
Bool(b) == JsValue("boolean", IF b THEN 1 ELSE 0, <<>>)
Num(n) == JsValue("number", n, <<>>)
NaN == JsValue("NaN", 0, <<>>)
PosInfinity == JsValue("Infinity", 1, <<>>)
NegInfinity == JsValue("Infinity", -1, <<>>)
Str(s) == JsValue("string", 0, s)
EmptyObject == JsValue("object", 0, <<>>)
\* an array of strings, s its elements
StrArray(s) == JsValue("array", 0, s)

\* ToBoolean
Truthy(v) ==
    CASE v.t \in {"undefined", "null", "NaN"} -> FALSE
      [] v.t \in {"boolean", "number"} -> v.n # 0
      [] v.t = "string" -> v.s # <<>>
      [] OTHER -> TRUE

Digits == <<"0", "1", "2", "3", "4", "5", "6", "7", "8", "9">>
IsDigit(c) == \E d \in 1..10 : Digits[d] = c
DigitValue(c) == (CHOOSE d \in 1..10 : Digits[d] = c) - 1

RECURSIVE NatToString(_)
NatToString(n) ==
    IF n < 10 THEN <<Digits[n + 1]>> ELSE NatToString(n \div 10) \o <<Digits[(n % 10) + 1]>>

RECURSIVE JoinComma(_)
JoinComma(ss) ==
    IF ss = <<>> THEN <<>>
    ELSE IF Len(ss) = 1 THEN ss[1]
    ELSE ss[1] \o <<",">> \o JoinComma(Tail(ss))

InfinityChars == <<"I", "n", "f", "i", "n", "i", "t", "y">>

\* String(v)
JsString(v) ==
    CASE v.t = "undefined" -> <<"u", "n", "d", "e", "f", "i", "n", "e", "d">>
      [] v.t = "null" -> <<"n", "u", "l", "l">>
      [] v.t = "boolean" -> IF v.n = 1 THEN <<"t", "r", "u", "e">> ELSE <<"f", "a", "l", "s", "e">>
      [] v.t = "number" -> IF v.n < 0 THEN <<"-">> \o NatToString(-v.n) ELSE NatToString(v.n)
      [] v.t = "NaN" -> <<"N", "a", "N">>
      [] v.t = "Infinity" -> IF v.n < 0 THEN <<"-">> \o InfinityChars ELSE InfinityChars
      [] v.t = "string" -> v.s
      [] v.t = "array" -> JoinComma(v.s)
      [] OTHER -> <<"[", "o", "b", "j", "e", "c", "t", " ", "O", "b", "j", "e", "c", "t", "]">>

\* String.prototype.trim: the blank is the white space of the model
RECURSIVE TrimStart(_)
TrimStart(s) == IF s # <<>> /\ Head(s) = " " THEN TrimStart(Tail(s)) ELSE s

RECURSIVE TrimEnd(_)
TrimEnd(s) ==
    IF s # <<>> /\ s[Len(s)] = " " THEN TrimEnd(SubSeq(s, 1, Len(s) - 1)) ELSE s

Trim(s) == TrimEnd(TrimStart(s))

RECURSIVE DigitsToNat(_, _)
DigitsToNat(s, acc) ==
    IF s = <<>> THEN acc ELSE DigitsToNat(Tail(s), 10 * acc + DigitValue(Head(s)))

\* the numeric value of an unsigned literal: decimal digits or "Infinity"
UnsignedToNumber(s, sign) ==
    IF s = InfinityChars THEN JsValue("Infinity", sign, <<>>)
    ELSE IF s # <<>> /\ \A i \in 1..Len(s) : IsDigit(s[i]) THEN Num(sign * DigitsToNat(s, 0))
    ELSE NaN

\* Number(string): white space trimmed, "" is 0, an optional sign
StringToNumber(s) ==
    LET t == Trim(s)
    IN  IF t = <<>> THEN Num(0)
        ELSE IF Head(t) = "-" THEN UnsignedToNumber(Tail(t), -1)
        ELSE IF Head(t) = "+" THEN UnsignedToNumber(Tail(t), 1)
        ELSE UnsignedToNumber(t, 1)

\* Number(v)
ToNumber(v) ==
    CASE v.t = "undefined" -> NaN
      [] v.t = "null" -> Num(0)
      [] v.t = "boolean" -> Num(v.n)
      [] v.t \in {"number", "NaN", "Infinity"} -> v
      [] v.t = "string" -> StringToNumber(v.s)
      [] v.t = "array" -> StringToNumber(JoinComma(v.s))
      [] OTHER -> NaN

\* a || b
OrElse(a, b) == IF Truthy(a) THEN a ELSE b

----------------------------------------------------------------------------
(* The item clean-up (gemini.ts 226-243) *)

UnknownItem == <<"U", "n", "k", "n", "o", "w", "n", " ", "I", "t", "e", "m">>
SaleMarker == <<"(", "S", "A", "L", "E", ")">>

UpperCase(c) ==
    CASE c = "s" -> "S" [] c = "a" -> "A" [] c = "l" -> "L" [] c = "e" -> "E" [] OTHER -> c

\* /\(SALE\)/i matches s at i
SaleAt(s, i) ==
    /\ i + Len(SaleMarker) - 1 <= Len(s)
    /\ \A j \in 1..Len(SaleMarker) : UpperCase(s[i + j - 1]) = SaleMarker[j]

\* s.replace(/\(SALE\)/gi, ""): one pass from the left, the matches it meets
\* are dropped and the scan resumes after each
RECURSIVE RemoveSaleFrom(_, _)
RemoveSaleFrom(s, i) ==
    IF i > Len(s) THEN <<>>
    ELSE IF SaleAt(s, i) THEN RemoveSaleFrom(s, i + Len(SaleMarker))
    ELSE <<s[i]>> \o RemoveSaleFrom(s, i + 1)

RemoveSale(s) == RemoveSaleFrom(s, 1)

\* gemini.ts 228-229: cleanName
CleanName(name) == Trim(RemoveSale(Trim(JsString(OrElse(name, Str(UnknownItem))))))

\* an entry of parsed.items: an object with the members the clean-up reads,
\* null, or a primitive (whose members all read as undefined)
Item(name, alternativeName, price, quantity, weight, unitPrice, category, originalPrice, tags, imageUrl) ==
    [kind |-> "object", name |-> name, alternativeName |-> alternativeName,
     price |-> price, quantity |-> quantity, weight |-> weight,
     unitPrice |-> unitPrice, category |-> category,
     originalPrice |-> originalPrice, tags |-> tags, imageUrl |-> imageUrl]

EmptyItem ==
    Item(Undefined, Undefined, Undefined, Undefined, Undefined, Undefined,
         Undefined, Undefined, Undefined, Undefined)
NullItem == [EmptyItem EXCEPT !.kind = "null"]
PrimitiveItem == [EmptyItem EXCEPT !.kind = "primitive"]

\* Mutant of the callback: the category is not copied
CleanItemNoCategory(item) ==
    [name |-> CleanName(item.name),
     alternativeName |-> IF Truthy(item.alternativeName)
                         THEN Str(Trim(JsString(item.alternativeName)))
                         ELSE Undefined,
     price |-> OrElse(ToNumber(item.price), Num(0)),
     quantity |-> OrElse(ToNumber(item.quantity), Num(1)),
     weight |-> item.weight,
     unitPrice |-> item.unitPrice,
     category |-> Undefined,
     originalPrice |-> OrElse(ToNumber(item.originalPrice), Undefined),
     tags |-> OrElse(item.tags, StrArray(<<>>)),
     imageUrl |-> item.imageUrl]

\* gemini.ts 231-242: the object the map callback returns
CleanItem(item) ==
    [name |-> CleanName(item.name),
     alternativeName |-> IF Truthy(item.alternativeName)
                         THEN Str(Trim(JsString(item.alternativeName)))
                         ELSE Undefined,
     price |-> OrElse(ToNumber(item.price), Num(0)),
     quantity |-> OrElse(ToNumber(item.quantity), Num(1)),
     weight |-> item.weight,
     unitPrice |-> item.unitPrice,
     category |-> item.category,
     originalPrice |-> OrElse(ToNumber(item.originalPrice), Undefined),
     tags |-> OrElse(item.tags, StrArray(<<>>)),
     imageUrl |-> item.imageUrl]

\* parsed.items: absent or another falsy value, an array of entries, or a
\* truthy value that is no array (an object, a string, a number, true)
ItemsValue(t, list) == [t |-> t, list |-> list]
NoItems == ItemsValue("undefined", <<>>)
ItemArray(list) == ItemsValue("array", list)
FalsyItemsKinds == {"undefined", "null", "emptyString", "zero", "false"}
NonArrayItemsKinds == {"object", "string", "number", "true"}

NullMemberMsg == "Cannot read properties of null (reading 'name')"
NotAFunctionMsg == "(parsed.items || []).map is not a function"

Cleaned(items) == [state |-> "returned", items |-> items, message |-> ""]
CleanThrew(m) == [state |-> "thrown", items |-> <<>>, message |-> m]

\* Mutant of the map: entries whose name is missing are filtered out
CleanItemsNamedOnly(v) ==
    IF v.t \in FalsyItemsKinds THEN Cleaned(<<>>)
    ELSE IF v.t \in NonArrayItemsKinds THEN CleanThrew(NotAFunctionMsg)
    ELSE IF \E i \in 1..Len(v.list) : v.list[i].kind = "null"
    THEN CleanThrew(NullMemberMsg)
    ELSE Cleaned(SelectSeq([i \in 1..Len(v.list) |-> CleanItem(v.list[i])],
                           LAMBDA x : x.name # UnknownItem))

\* gemini.ts 226-243: (parsed.items || []).map(...); reading a member of a
\* null entry, or calling map on a value that has none, is a TypeError
CleanItems(v) ==
    IF v.t \in FalsyItemsKinds THEN Cleaned(<<>>)
    ELSE IF v.t \in NonArrayItemsKinds THEN CleanThrew(NotAFunctionMsg)
    ELSE IF \E i \in 1..Len(v.list) : v.list[i].kind = "null"
    THEN CleanThrew(NullMemberMsg)
    ELSE Cleaned([i \in 1..Len(v.list) |-> CleanItem(v.list[i])])

----------------------------------------------------------------------------
(* Failures and results as the caller receives them.  Every failure is a   *)
(* plain Error: all the caller gets is its message, and the outer catch    *)
(* (gemini.ts 247-252) prefixes it with "Failed to parse receipt with      *)
(* Gemini: " (`wrapped`).                                                  *)

ConfigMsg == "Gemini API key not configured"
EmptyMsg == "Gemini response was empty or in an unrecognized format"
NoJsonMsg == "Gemini response did not contain valid JSON data"

NoError == [present |-> FALSE, wrapped |-> FALSE, message |-> ""]
Unwrapped(m) == [present |-> TRUE, wrapped |-> FALSE, message |-> m]
Wrap(m) == [present |-> TRUE, wrapped |-> TRUE, message |-> m]

NoReceipt == [present |-> FALSE, json |-> <<>>, items |-> <<>>, currency |-> Undefined]

\* (parsed.items || []).map(...): no lexeme is the key "items", so
\* parsed.items is undefined and the mapped array is empty
NormalizedItems(parsed) == CleanItems(NoItems).items

\* the texts of the pipeline carry no "currency" member either, and the code
\* returns `parsed` with the currency JSON.parse gave it (gemini.ts 223-246)
ParsedCurrency(parsed) == Undefined

Receipt(parsed) ==
    [present |-> TRUE, json |-> parsed, items |-> NormalizedItems(parsed),
     currency |-> ParsedCurrency(parsed)]

Outcome(c, j, a, r, t, f) ==
    [content |-> c, jsonContent |-> j, parseAttempted |-> a,
     returned |-> r, thrown |-> t, failedAt |-> f]

\* Mutant of the guard: the order of the two braces is not checked
NoJsonObjectUnordered(jsonStart, jsonEnd) == jsonStart = -1 \/ jsonEnd = -1

\* gemini.ts 217: jsonStart === -1 || jsonEnd === -1 || jsonEnd <= jsonStart
NoJsonObject(jsonStart, jsonEnd) ==
    jsonStart = -1 \/ jsonEnd = -1 \/ jsonEnd <= jsonStart

\* gemini.ts 214-223: the slice from the first "{" to the last "}", parsed
IsolateAndParse(c) ==
    LET jsonStart == IndexOf(c, "{")
        jsonEnd == LastIndexOf(c, "}")
    IN  IF NoJsonObject(jsonStart, jsonEnd)
        THEN Outcome(c, <<>>, FALSE, NoReceipt, Wrap(NoJsonMsg), "nojson")
        ELSE LET slice == Substring(c, jsonStart, jsonEnd + 1)
                 parsed == JSONParse(slice)
             IN  IF parsed.ok
                 THEN Outcome(c, slice, TRUE, Receipt(parsed.value), NoError, "none")
                 ELSE Outcome(c, slice, TRUE, NoReceipt, Wrap(parsed.message), "jsonparse")

\* gemini.ts 162-252: everything after `await callWithRetry()` resolved
ProcessResponse(r) ==
    LET c == ExtractContent(r)
    IN  IF c = <<>>
        THEN Outcome(c, <<>>, FALSE, NoReceipt, Wrap(EmptyMsg), "empty")
        ELSE IsolateAndParse(c)

----------------------------------------------------------------------------
(* What generateContent can reject with.  `status` and `code` are 0 when   *)
(* the error has no such member; the message is whatever the SDK or the    *)
(* network layer put there.                                                *)

UpstreamMessages == {"fetch failed", "Too Many Requests", EndOfInputMsg}

UpstreamErrors ==
    {[status |-> RateLimited, code |-> 0, message |-> m] : m \in UpstreamMessages}
      \cup {[status |-> 0, code |-> RateLimited, message |-> m] : m \in UpstreamMessages}
      \cup {[status |-> 500, code |-> 0, message |-> m] : m \in UpstreamMessages}
      \cup {[status |-> 0, code |-> 0, message |-> m] : m \in UpstreamMessages}

\* Mutant of the rate-limit test: any status or code counts
IsRateLimitAnyStatus(e) == e.status # 0 \/ e.code # 0

\* error?.status === 429 || error?.code === 429
IsRateLimit(e) == e.status = RateLimited \/ e.code = RateLimited

\* Mutants of the retry condition: one retry too many; a retry on any error
ShouldRetryOnceMore(n, e) == n >= 0 /\ IsRateLimit(e)
ShouldRetryAnyError(n, e) == n > 0

\* retries > 0 && (error?.status === 429 || error?.code === 429)
ShouldRetry(n, e) == n > 0 /\ IsRateLimit(e)

\* Mutant of the backoff: the delay grows by the initial delay
NextDelayLinear(d) == d + InitialDelay

\* callWithRetry(retries - 1, delay * 2)
NextDelay(d) == d * 2

Succeeded == [ok |-> TRUE, status |-> 0, code |-> 0]
Failed(e) == [ok |-> FALSE, status |-> e.status, code |-> e.code]

----------------------------------------------------------------------------
(* One invocation of parseReceiptImage *)

\* the item clean-up and the sniffing are not under study
ItemsIdle == upstreamItems = NoItems /\ upstreamCurrency = Undefined
SniffIdle == imageBase64 = <<>> /\ mimeType = ""

\* no concurrent invocations and an empty database with no call in flight
PairIdle == invocations = <<>>
EmptyDb ==
    [products |-> {}, bookmarks |-> {}, prices |-> {}, price_alerts |-> {},
     receipts |-> {}]
DbIdle == db = EmptyDb /\ sessions = <<>>
OthersIdle == PairIdle /\ DbIdle

Init ==
    /\ ItemsIdle
    /\ SniffIdle
    /\ OthersIdle
    /\ genAI \in BOOLEAN
    /\ pc = "start"
    /\ retries = Retries
    /\ delay = InitialDelay
    /\ attempts = <<>>
    /\ waits = <<>>
    /\ result = NoResponse
    /\ content = <<>>
    /\ jsonContent = <<>>
    /\ parseAttempted = FALSE
    /\ returned = NoReceipt
    /\ thrown = NoError
    /\ failedAt = "none"

\* Mutant of the credential check: it sits inside the try block
CredentialMissingWrapped ==
    /\ pc = "start"
    /\ ~genAI
    /\ pc' = "done"
    /\ thrown' = Wrap(ConfigMsg)
    /\ failedAt' = "credential"
    /\ UNCHANGED <<itemVars, sniffVars, pairVars, dbVars>>
    /\ UNCHANGED <<genAI, retries, delay, attempts, waits, result, content,
                   jsonContent, parseAttempted, returned>>

\* gemini.ts 47-49: without a client the call throws before anything else
CredentialMissing ==
    /\ pc = "start"
    /\ ~genAI
    /\ pc' = "done"
    /\ thrown' = Unwrapped(ConfigMsg)
    /\ failedAt' = "credential"
    /\ UNCHANGED <<itemVars, sniffVars, pairVars, dbVars>>
    /\ UNCHANGED <<genAI, retries, delay, attempts, waits, result, content,
                   jsonContent, parseAttempted, returned>>

\* Mutant of the credential check: the call is issued without a client
BeginUnchecked ==
    /\ pc = "start"
    /\ pc' = "calling"
    /\ UNCHANGED <<itemVars, sniffVars, pairVars, dbVars>>
    /\ UNCHANGED <<genAI, retries, delay, attempts, waits, result, content,
                   jsonContent, parseAttempted, returned, thrown, failedAt>>

\* gemini.ts 51-161: the request is built and callWithRetry() issues the call
Begin ==
    /\ pc = "start"
    /\ genAI
    /\ pc' = "calling"
    /\ UNCHANGED <<itemVars, sniffVars, pairVars, dbVars>>
    /\ UNCHANGED <<genAI, retries, delay, attempts, waits, result, content,
                   jsonContent, parseAttempted, returned, thrown, failedAt>>

\* Mutant of the resolution: an empty or malformed response is treated like
\* a rate limit while retries are left
ResolveWithRetryMalformed(r) ==
    IF retries > 0 /\ ProcessResponse(r).thrown.present
    THEN /\ attempts' = Append(attempts, Succeeded)
         /\ waits' = Append(waits, delay)
         /\ pc' = "waiting"
         /\ UNCHANGED <<itemVars, sniffVars, pairVars, dbVars>>
         /\ UNCHANGED <<genAI, retries, delay, result, content, jsonContent,
                        parseAttempted, returned, thrown, failedAt>>
    ELSE /\ \E o \in {ProcessResponse(r)} :
                /\ content' = o.content
                /\ jsonContent' = o.jsonContent
                /\ parseAttempted' = o.parseAttempted
                /\ returned' = o.returned
                /\ thrown' = o.thrown
                /\ failedAt' = o.failedAt
         /\ result' = r
         /\ attempts' = Append(attempts, Succeeded)
         /\ pc' = "done"
         /\ UNCHANGED <<itemVars, sniffVars, pairVars, dbVars>>
         /\ UNCHANGED <<genAI, retries, delay, waits>>

\* generateContent resolves: callWithRetry returns the result and the rest
\* of parseReceiptImage runs to its return or to the outer catch
ResolveWith(r) ==
    /\ \E o \in {ProcessResponse(r)} :
           /\ content' = o.content
           /\ jsonContent' = o.jsonContent
           /\ parseAttempted' = o.parseAttempted
           /\ returned' = o.returned
           /\ thrown' = o.thrown
           /\ failedAt' = o.failedAt
    /\ result' = r
    /\ attempts' = Append(attempts, Succeeded)
    /\ pc' = "done"
    /\ UNCHANGED <<itemVars, sniffVars, pairVars, dbVars>>
    /\ UNCHANGED <<genAI, retries, delay, waits>>

\* Mutant of the rate-limit branch: the retry is decided but no timer is set
RateLimitedWithNoTimer(e) ==
    /\ ShouldRetry(retries, e)
    /\ attempts' = Append(attempts, Failed(e))
    /\ waits' = waits
    /\ pc' = "unscheduled"
    /\ UNCHANGED <<itemVars, sniffVars, pairVars, dbVars>>
    /\ UNCHANGED <<genAI, retries, delay, result, content, jsonContent,
                   parseAttempted, returned, thrown, failedAt>>

\* generateContent rejects with a rate limit and retries are left: the
\* backoff timer is set (gemini.ts 151-153)
RateLimitedWith(e) ==
    /\ ShouldRetry(retries, e)
    /\ attempts' = Append(attempts, Failed(e))
    /\ waits' = Append(waits, delay)
    /\ pc' = "waiting"
    /\ UNCHANGED <<itemVars, sniffVars, pairVars, dbVars>>
    /\ UNCHANGED <<genAI, retries, delay, result, content, jsonContent,
                   parseAttempted, returned, thrown, failedAt>>

\* Mutant of the rethrow: the error leaves callWithRetry past the outer catch
FailWithUnwrapped(e) ==
    /\ ~ShouldRetry(retries, e)
    /\ attempts' = Append(attempts, Failed(e))
    /\ thrown' = Unwrapped(e.message)
    /\ failedAt' = "inference"
    /\ pc' = "done"
    /\ UNCHANGED <<itemVars, sniffVars, pairVars, dbVars>>
    /\ UNCHANGED <<genAI, retries, delay, waits, result, content, jsonContent,
                   parseAttempted, returned>>

\* generateContent rejects and the error is rethrown (gemini.ts 156) to the
\* outer catch, which wraps its message (gemini.ts 247-252)
FailWith(e) ==
    /\ ~ShouldRetry(retries, e)
    /\ attempts' = Append(attempts, Failed(e))
    /\ thrown' = Wrap(e.message)
    /\ failedAt' = "inference"
    /\ pc' = "done"
    /\ UNCHANGED <<itemVars, sniffVars, pairVars, dbVars>>
    /\ UNCHANGED <<genAI, retries, delay, waits, result, content, jsonContent,
                   parseAttempted, returned>>

\* the backoff timer fires: callWithRetry(retries - 1, delay * 2) (gemini.ts 154)
TimerFires ==
    /\ pc = "waiting"
    /\ retries' = retries - 1
    /\ delay' = NextDelay(delay)
    /\ pc' = "calling"
    /\ UNCHANGED <<itemVars, sniffVars, pairVars, dbVars>>
    /\ UNCHANGED <<genAI, attempts, waits, result, content, jsonContent,
                   parseAttempted, returned, thrown, failedAt>>

CallResolves == pc = "calling" /\ \E r \in Responses : ResolveWith(r)

CallRateLimited == pc = "calling" /\ \E e \in UpstreamErrors : RateLimitedWith(e)

CallFails == pc = "calling" /\ \E e \in UpstreamErrors : FailWith(e)

Next ==
    \/ CredentialMissing
    \/ Begin
    \/ CallResolves
    \/ CallRateLimited
    \/ CallFails
    \/ TimerFires

Spec == Init /\ [][Next]_vars

\* The retry loop under the premise that every pending step completes: a
\* started call resolves or rejects and a set timer fires.  Which response a
\* call resolves with does not matter to the loop, so one response of each
\* outcome stands for the rest: no text, a throwing accessor, an empty text,
\* text without JSON, text that parses.
LiveResponses ==
    {Response(t, NoWrapper, NoCandidates) : t \in TextAccessors}
      \cup {Response(Accessor("string", OtherPartText), NoWrapper, NoCandidates)}

CallResolvesLive == pc = "calling" /\ \E r \in LiveResponses : ResolveWith(r)

LiveNext ==
    \/ CredentialMissing
    \/ Begin
    \/ CallResolvesLive
    \/ CallRateLimited
    \/ CallFails
    \/ TimerFires

LiveSpec == Init /\ [][LiveNext]_vars /\ WF_vars(LiveNext)

----------------------------------------------------------------------------
(* Properties of the retry loop *)

\* the rate-limit signal, as the claims name it
Carries429(a) == ~a.ok /\ (a.status = 429 \/ a.code = 429)

Resolved == pc = "done" /\ attempts # <<>> /\ attempts[Len(attempts)].ok

ThreeRateLimitsThenSuccess ==
    /\ Len(attempts) = 4
    /\ \A k \in 1..3 : Carries429(attempts[k])
    /\ attempts[4].ok

\* C1: after three consecutive 429 failures and then a success, exactly three
\* retries were made, the timers set were 2000, 4000 and 8000 ms in that
\* order, and the invocation ends with the parse of the successful response.
C1_ThreeRetriesThenParse ==
    ThreeRateLimitsThenSuccess =>
        /\ pc = "done"
        /\ waits = <<2000, 4000, 8000>>
        /\ failedAt # "inference"
        /\ returned = ProcessResponse(result).returned
        /\ thrown = ProcessResponse(result).thrown

C1_Witness == ThreeRateLimitsThenSuccess /\ returned.present

FourRateLimits ==
    /\ Len(attempts) >= 4
    /\ \A k \in 1..4 : Carries429(attempts[k])

\* C2: after four consecutive 429 failures no fifth call is made and the
\* invocation has failed at the inference stage with no ParsedReceipt.
C2_FourRateLimitsFail ==
    FourRateLimits =>
        /\ Len(attempts) = 4
        /\ Len(waits) = 3
        /\ pc = "done"
        /\ failedAt = "inference"
        /\ thrown.present
        /\ ~returned.present

C2_Witness == FourRateLimits /\ pc = "done"

RECURSIVE Doubled(_, _)
Doubled(d, n) == IF n = 0 THEN d ELSE 2 * Doubled(d, n - 1)

\* C3: in every state of every execution, each call after the first follows
\* a failure carrying 429 and a timer, at most 3 retries (4 calls) are made,
\* and the k-th timer is the initial delay doubled k-1 times.
C3_RetryDiscipline ==
    /\ Len(attempts) <= 4
    /\ Len(waits) <= 3
    /\ Len(attempts) <= Len(waits) + 1
    /\ \A k \in 1..Len(waits) :
          /\ k <= Len(attempts)
          /\ Carries429(attempts[k])
          /\ waits[k] = Doubled(2000, k - 1)

C3_Witness == Len(attempts) = 4 /\ Len(waits) = 3

OtherFailure(a) == ~a.ok /\ ~(a.status = 429 \/ a.code = 429)

\* C4: a call that fails without the 429 signal is the last call: no timer is
\* set after it, and the invocation has failed at once, on the first call as
\* on a retry.
C4_OtherErrorsPropagate ==
    \A k \in 1..Len(attempts) :
        OtherFailure(attempts[k]) =>
            /\ k = Len(attempts)
            /\ Len(waits) = k - 1
            /\ pc = "done"
            /\ failedAt = "inference"
            /\ thrown.present
            /\ ~returned.present

C4_Witness == Len(attempts) = 3 /\ OtherFailure(attempts[3])

\* C5: without the credential no inference call is ever made and no timer is
\* set, and the invocation ends with the configuration failure.
C5_NoCredentialNoCall ==
    ~genAI =>
        /\ attempts = <<>>
        /\ waits = <<>>
        /\ pc \in {"start", "done"}
        /\ pc = "done" =>
              /\ thrown = Unwrapped(ConfigMsg)
              /\ failedAt = "credential"
              /\ ~returned.present

C5_Witness == ~genAI /\ pc = "done"

----------------------------------------------------------------------------
(* Properties of the failure values *)

FailureClasses ==
    {"ConfigurationError", "UpstreamUnavailable", "EmptyResponse", "MalformedResponse"}

FailureClass(site) ==
    CASE site = "credential" -> "ConfigurationError"
      [] site = "inference" -> "UpstreamUnavailable"
      [] site = "empty" -> "EmptyResponse"
      [] site \in {"nojson", "jsonparse"} -> "MalformedResponse"
      [] OTHER -> "none"

\* The failure values an invocation can reject with, by class
ConfigurationFailures == {Unwrapped(ConfigMsg)}
UpstreamFailures == {Wrap(e.message) : e \in UpstreamErrors}
ResponseFailures(sites) ==
    {o.thrown : o \in {x \in {ProcessResponse(r) : r \in Responses} : x.failedAt \in sites}}
EmptyFailures == ResponseFailures({"empty"})
MalformedFailures == ResponseFailures({"nojson", "jsonparse"})

FailuresOf(class) ==
    CASE class = "ConfigurationError" -> ConfigurationFailures
      [] class = "UpstreamUnavailable" -> UpstreamFailures
      [] class = "EmptyResponse" -> EmptyFailures
      [] class = "MalformedResponse" -> MalformedFailures

----------------------------------------------------------------------------
(* Properties of the text extraction *)

\* the strategies (a) to (e) in the order the claims give them
Strategies(r) ==
    <<ProbeTextFunction(r), ProbeTextString(r), ProbeWrapper(r),
      ProbeFirstCandidate(r), ProbeAllCandidates(r)>>

\* the text of the first strategy of ps that yields non-empty text
FirstText(ps) ==
    IF \E i \in 1..Len(ps) : ps[i].text # <<>>
    THEN ps[CHOOSE i \in 1..Len(ps) :
                /\ ps[i].text # <<>>
                /\ \A j \in 1..(i - 1) : ps[j].text = <<>>].text
    ELSE <<>>

\* the strategies of ps up to the first one that throws, that one included:
\* its text is what it had gathered when it threw
UpToThrow(ps) ==
    IF \E i \in 1..Len(ps) : ps[i].threw
    THEN SubSeq(ps, 1, CHOOSE i \in 1..Len(ps) :
                           /\ ps[i].threw
                           /\ \A j \in 1..(i - 1) : ~ps[j].threw)
    ELSE ps

Opens(t) == {i \in 1..Len(t) : t[i] = "{"}
Closes(t) == {i \in 1..Len(t) : t[i] = "}"}
HasBracePair(t) == \E i \in Opens(t), j \in Closes(t) : i < j
BraceSlice(t) ==
    SubSeq(t, CHOOSE i \in Opens(t) : \A j \in Opens(t) : i <= j,
              CHOOSE i \in Closes(t) : \A j \in Closes(t) : j <= i)
Parseable(t) == HasBracePair(t) /\ JSONParse(BraceSlice(t)).ok

\* the strategy of r that throws while probing, 0 when none does: every
\* strategy before it has run and yielded no text
ThrowingProbe(r) ==
    IF \E k \in 1..5 : /\ Strategies(r)[k].threw
                        /\ \A j \in 1..(k - 1) : Strategies(r)[j] = Yield(<<>>)
    THEN CHOOSE k \in 1..5 : /\ Strategies(r)[k].threw
                             /\ \A j \in 1..(k - 1) : Strategies(r)[j] = Yield(<<>>)
    ELSE 0

\* the failures the pipeline raises itself once a response has arrived
PipelineMessages == {EmptyMsg, NoJsonMsg, EndOfInputMsg, UnexpectedTokenMsg}

\* C26: an exception thrown by a probe does not reach the caller: the text is
\* what that probe had gathered when it threw, whatever the strategies after
\* it hold, and the invocation goes on with it: to the empty-response error
\* when it is empty, to the JSON isolation otherwise.
C26_ThrowingProbeEndsProbing ==
    (Resolved /\ ThrowingProbe(result) # 0) =>
        /\ content = Strategies(result)[ThrowingProbe(result)].text
        /\ content = <<>> => (thrown = Wrap(EmptyMsg) /\ failedAt = "empty")
        /\ content # <<>> => failedAt \in {"none", "nojson", "jsonparse"}
        /\ thrown.present => thrown.message \in PipelineMessages
        /\ returned.present <=> (content # <<>> /\ Parseable(content))

\* strategy (e) met a null part after it had gathered an object from an
\* earlier part, a later candidate holds text too, and the object was returned
C26_Witness ==
    /\ Resolved
    /\ ThrowingProbe(result) = 5
    /\ Len(result.candidates.list) = 3
    /\ content = FirstPartText
    /\ returned.present

OnlyInTopCandidates(r) ==
    /\ \A i \in 1..3 : Strategies(r)[i] = Yield(<<>>)
    /\ \A i \in 4..5 : ~Strategies(r)[i].threw
    /\ ProbeAllCandidates(r).text # <<>>

----------------------------------------------------------------------------
(* Properties of the JSON isolation *)

\* the places <<i, j>> of t that hold a valid JSON object
ObjectsIn(t) ==
    {r \in (1..Len(t)) \X (1..Len(t)) : r[1] < r[2] /\ JSONParse(SubSeq(t, r[1], r[2])).ok}

\* those not nested in another one
EmbeddedObjects(t) ==
    {r \in ObjectsIn(t) :
        \A q \in ObjectsIn(t) : (q[1] <= r[1] /\ r[2] <= q[2]) => q = r}

\* C9 as stated: when the extracted text holds one valid JSON object amid
\* other text, the slice parsed is the text from the first "{" to the last
\* "}", parsing succeeds and the result is that object.
C9_EmbeddedObjectParsed ==
    Resolved =>
        \A r \in EmbeddedObjects(content) :
            Cardinality(EmbeddedObjects(content)) = 1 =>
                /\ parseAttempted
                /\ jsonContent = BraceSlice(content)
                /\ returned.present
                /\ returned.json = JSONParse(SubSeq(content, r[1], r[2])).value

\* C9 as amended: the same for an object with no "{" before it and no "}"
\* after it in the extracted text; the slice is then exactly the object.
C9_EmbeddedObjectParsedNoStrayBraces ==
    Resolved =>
        \A r \in ObjectsIn(content) :
            ((\A i \in Opens(content) : r[1] <= i) /\ (\A j \in Closes(content) : j <= r[2])) =>
                /\ parseAttempted
                /\ jsonContent = BraceSlice(content)
                /\ jsonContent = SubSeq(content, r[1], r[2])
                /\ returned.present
                /\ returned.json = JSONParse(SubSeq(content, r[1], r[2])).value

C9_Witness ==
    /\ Resolved
    /\ returned.present
    /\ Len(content) >= 4
    /\ content[1] = "p"
    /\ content[Len(content)] = "p"

\* C10: when the extracted text has no "{", or no "}", or its last "}" comes
\* before its first "{", the invocation fails with the malformed-response
\* error and JSON.parse is never called.
C10_NoBracePairFails ==
    (/\ Resolved
     /\ content # <<>>
     /\ \/ Opens(content) = {}
        \/ Closes(content) = {}
        \/ \A i \in Opens(content), j \in Closes(content) : j < i) =>
        /\ failedAt = "nojson"
        /\ thrown = Wrap(NoJsonMsg)
        /\ ~parseAttempted
        /\ ~returned.present

C10_Witness ==
    /\ Resolved
    /\ Opens(content) # {}
    /\ Closes(content) # {}
    /\ failedAt = "nojson"

\* C18: a call that has resolved is the last call of the invocation: whatever
\* the response holds (nothing, no text, no JSON, malformed JSON) the
\* invocation is over and no timer is set after it.
C18_NoCallAfterResolved ==
    \A k \in 1..Len(attempts) :
        attempts[k].ok =>
            /\ k = Len(attempts)
            /\ pc = "done"
            /\ Len(waits) = Len(attempts) - 1

\* a response without usable JSON arrives while retries are still left
C18_Witness ==
    /\ Resolved
    /\ Len(attempts) = 2
    /\ retries > 0
    /\ thrown.present
    /\ failedAt \in {"empty", "nojson", "jsonparse"}

\* C19: every invocation terminates: when each call and each timer completes,
\* the invocation eventually settles, with a receipt or with an error.
C19_Terminates == <>(pc = "done" /\ (returned.present \/ thrown.present))

\* the longest run: the initial call and every retry are spent
C19_Witness ==
    /\ pc = "done"
    /\ Len(attempts) = Retries + 1
    /\ Len(waits) = Retries
    /\ retries = 0

----------------------------------------------------------------------------
(* The item clean-up studied on its own: JSON.parse has just returned an   *)
(* object whose `items` member is drawn from the values below, and one     *)
(* step runs gemini.ts 226-252 to the return or to the outer catch.        *)

MaxNameChunks == 3
MaxItems == 2

\* names are built from blanks, a letter, the marker in two casings and the
\* two halves of a marker split around another one
NameChunks ==
    {<<" ">>, <<"a">>, <<"(", "S", "A", "L", "E", ")">>, <<"(", "s", "a", "l", "e", ")">>, <<"(", "S", "A">>, <<"L", "E", ")">>}

Names == {Join(c) : c \in SeqsUpTo(NameChunks, MaxNameChunks)}

NameValues ==
    {Undefined, Null, Num(0), Num(7), Bool(TRUE), StrArray(<<>>)} \cup {Str(n) : n \in Names}

NumericValues ==
    {Undefined, Null, Num(0), Num(5), Num(-5), PosInfinity, Bool(TRUE),
     Str(<<>>), Str(<<"1", "2">>), Str(<<"a">>)}

NamedItems == {[EmptyItem EXCEPT !.name = n] : n \in NameValues}

PricedItems ==
    {[EmptyItem EXCEPT !.price = p, !.quantity = q, !.originalPrice = o] :
        p \in NumericValues, q \in NumericValues, o \in NumericValues}

FewItems ==
    {NullItem, PrimitiveItem, EmptyItem,
     [EmptyItem EXCEPT !.name = Str(<<"a">>)],
     [EmptyItem EXCEPT !.price = Num(5)]}

AlternativeNameValues ==
    {Undefined, Null, Num(0), Num(7), Str(<<>>), Str(<<" ">>), Str(<<"a">>),
     Str(<<" ", "a", " ">>)}

TagsValues ==
    {Undefined, Null, Str(<<>>), StrArray(<<>>), StrArray(<<"t">>), StrArray(<<"t", "u">>)}

\* values of the members the clean-up copies
CopiedValues == {Undefined, Null, Num(5), Str(<<" ", "a">>)}

DescribedItems ==
    {[EmptyItem EXCEPT !.alternativeName = a, !.tags = t] :
        a \in AlternativeNameValues, t \in TagsValues}
      \cup {[EmptyItem EXCEPT !.weight = w, !.unitPrice = u, !.category = c, !.imageUrl = m] :
                w \in CopiedValues, u \in CopiedValues, c \in CopiedValues, m \in CopiedValues}

CurrencyValues == {Undefined, Null, Str(<<"U", "S", "D">>), Str(<<"C", "A", "D">>)}

ItemsInputs ==
    {ItemsValue(t, <<>>) : t \in FalsyItemsKinds \cup NonArrayItemsKinds}
      \cup {ItemArray(<<i>>) : i \in NamedItems \cup PricedItems \cup DescribedItems}
      \cup {ItemArray(l) : l \in SeqsUpTo(FewItems, MaxItems)}

ItemInit ==
    /\ upstreamItems \in ItemsInputs
    /\ upstreamCurrency \in CurrencyValues
    /\ SniffIdle
    /\ OthersIdle
    /\ genAI = TRUE
    /\ pc = "parsed"
    /\ retries = Retries
    /\ delay = InitialDelay
    /\ attempts = <<Succeeded>>
    /\ waits = <<>>
    /\ result = NoResponse
    /\ content = <<"{", "}">>
    /\ jsonContent = <<"{", "}">>
    /\ parseAttempted = TRUE
    /\ returned = NoReceipt
    /\ thrown = NoError
    /\ failedAt = "none"

\* gemini.ts 226-252: the items are cleaned and the receipt returned, or the
\* TypeError of the clean-up reaches the outer catch
CleanUp ==
    /\ pc = "parsed"
    /\ \E o \in {CleanItems(upstreamItems)} :
          IF o.state = "returned"
          THEN /\ returned' = [present |-> TRUE, json |-> <<>>, items |-> o.items,
                               currency |-> upstreamCurrency]
               /\ UNCHANGED <<thrown, failedAt>>
          ELSE /\ thrown' = Wrap(o.message)
               /\ failedAt' = "cleanup"
               /\ UNCHANGED returned
    /\ pc' = "done"
    /\ UNCHANGED <<itemVars, sniffVars, pairVars, dbVars>>
    /\ UNCHANGED <<genAI, retries, delay, attempts, waits, result, content,
                   jsonContent, parseAttempted>>

ItemNext == CleanUp

ItemSpec == ItemInit /\ [][ItemNext]_vars

----------------------------------------------------------------------------
(* Properties of the item clean-up *)

ReceiptReturned == pc = "done" /\ returned.present

\* the upstream entry the i-th returned item was made from
UpstreamItem(i) == upstreamItems.list[i]

\* a name that is missing, empty or made of white space only
BlankName(v) ==
    \/ v.t \in {"undefined", "null"}
    \/ v.t = "string" /\ \A j \in 1..Len(v.s) : v.s[j] = " "

\* C11: the name of every returned item is non-empty, and is "Unknown Item"
\* when the upstream name is missing, empty or white space only.
C11_NameNeverEmpty ==
    ReceiptReturned =>
        \A i \in 1..Len(returned.items) :
            /\ returned.items[i].name # <<>>
            /\ BlankName(UpstreamItem(i).name) => returned.items[i].name = UnknownItem

\* C12: the price of every returned item is a finite number >= 0.
C12_PriceFiniteNonNegative ==
    ReceiptReturned =>
        \A i \in 1..Len(returned.items) :
            /\ returned.items[i].price.t = "number"
            /\ returned.items[i].price.n >= 0

\* C13: the quantity of every returned item is the upstream quantity coerced
\* to a number when that number is finite, 0 included, and 1 otherwise.
C13_QuantityFiniteOrOne ==
    ReceiptReturned =>
        \A i \in 1..Len(returned.items) :
            LET n == ToNumber(UpstreamItem(i).quantity)
            IN  returned.items[i].quantity = IF n.t = "number" THEN n ELSE Num(1)

\* C14: the originalPrice of a returned item is present only when the upstream
\* value coerces to a finite positive number, and is then that number.
C14_OriginalPricePositiveOrAbsent ==
    ReceiptReturned =>
        \A i \in 1..Len(returned.items) :
            LET n == ToNumber(UpstreamItem(i).originalPrice)
            IN  returned.items[i].originalPrice # Undefined =>
                    /\ n.t = "number"
                    /\ n.n > 0
                    /\ returned.items[i].originalPrice = n

LowerCase(c) ==
    CASE c = "S" -> "s" [] c = "A" -> "a" [] c = "L" -> "l" [] c = "E" -> "e" [] OTHER -> c

\* s holds "(SALE)" in some casing
HasMarker(s) ==
    \E i \in 1..(Len(s) - 5) :
        [j \in 1..6 |-> LowerCase(s[i + j - 1])] = <<"(", "s", "a", "l", "e", ")">>

\* C15: when the upstream name holds the marker, the returned name holds it in
\* no casing and has no white space at either end.
C15_MarkerRemovedAndTrimmed ==
    ReceiptReturned =>
        \A i \in 1..Len(returned.items) :
            (UpstreamItem(i).name.t = "string" /\ HasMarker(UpstreamItem(i).name.s)) =>
                LET name == returned.items[i].name
                IN  /\ ~HasMarker(name)
                    /\ name # <<>> => (name[1] # " " /\ name[Len(name)] # " ")

\* C16: once JSON.parse has succeeded the invocation ends with a ParsedReceipt,
\* whatever the entries of `items` are.
C16_AlwaysReturnsAfterParse ==
    pc = "done" => (returned.present /\ ~thrown.present)

\* C17: a returned receipt's items are empty when the upstream object has no
\* items, and otherwise hold one cleaned item per upstream entry, in order.
C17_OneItemPerUpstreamItem ==
    ReceiptReturned =>
        /\ upstreamItems.t \in FalsyItemsKinds => returned.items = <<>>
        /\ upstreamItems.t = "array" =>
              /\ Len(returned.items) = Len(upstreamItems.list)
              /\ \A i \in 1..Len(upstreamItems.list) :
                    returned.items[i] = CleanItem(upstreamItems.list[i])

C17_Witness ==
    /\ ReceiptReturned
    /\ Len(returned.items) = 2
    /\ returned.items[1].name = UnknownItem
    /\ returned.items[2].name = <<"a">>

\* the four members the callback copies are the upstream ones
CopiedUnchanged(up, out) ==
    /\ out.weight = up.weight
    /\ out.unitPrice = up.unitPrice
    /\ out.category = up.category
    /\ out.imageUrl = up.imageUrl

\* C21, as stated: weight, unitPrice, category, alternativeName and imageUrl of
\* every returned item are the upstream values, and tags is the upstream tags
\* or the empty sequence when the upstream item has none.
C21_FieldsPassThrough ==
    ReceiptReturned =>
        \A i \in 1..Len(returned.items) :
            /\ CopiedUnchanged(UpstreamItem(i), returned.items[i])
            /\ returned.items[i].alternativeName = UpstreamItem(i).alternativeName
            /\ returned.items[i].tags =
                  IF UpstreamItem(i).tags = Undefined THEN StrArray(<<>>)
                  ELSE UpstreamItem(i).tags

\* a value that `||` and `?:` take for absent: undefined, null, "", 0
Falsy(v) ==
    \/ v.t \in {"undefined", "null"}
    \/ v.t = "string" /\ v.s = <<>>
    \/ v.t \in {"number", "boolean"} /\ v.n = 0

\* C21, amended: weight, unitPrice, category and imageUrl are the upstream
\* values; alternativeName is the upstream value as a trimmed string, or
\* undefined when the upstream value is falsy; tags is the upstream tags, or
\* the empty sequence when the upstream value is falsy.
C21_CopiedTrimmedDefaulted ==
    ReceiptReturned =>
        \A i \in 1..Len(returned.items) :
            /\ CopiedUnchanged(UpstreamItem(i), returned.items[i])
            /\ returned.items[i].alternativeName =
                  IF Falsy(UpstreamItem(i).alternativeName) THEN Undefined
                  ELSE Str(Trim(JsString(UpstreamItem(i).alternativeName)))
            /\ returned.items[i].tags =
                  IF Falsy(UpstreamItem(i).tags) THEN StrArray(<<>>)
                  ELSE UpstreamItem(i).tags

\* an item with a padded alternative name and a tag has been cleaned
C21_Witness ==
    /\ ReceiptReturned
    /\ Len(returned.items) = 1
    /\ UpstreamItem(1).alternativeName = Str(<<" ", "a", " ">>)
    /\ returned.items[1].alternativeName = Str(<<"a">>)
    /\ returned.items[1].tags = StrArray(<<"t">>)

\* C22: a returned receipt has currency "USD" whenever the upstream JSON
\* carries no currency.
C22_CurrencyDefaultsToUSD ==
    (ReceiptReturned /\ upstreamCurrency = Undefined) =>
        returned.currency = Str(<<"U", "S", "D">>)

----------------------------------------------------------------------------
(* MIME detection (gemini.ts 108-120): the type sent with the image is read *)
(* off the first characters of its base64 text.                             *)

PngSignature == <<"i", "V", "B", "O", "R", "w", "0", "K", "G", "g", "o">>
GifSignature == <<"R", "0", "l", "G", "O", "D">>
WebpSignature == <<"U", "k", "l", "G", "R">>
JxlSignature ==
    <<"A", "A", "A", "A", "I", "G", "Z", "0", "e", "X", "B", "q", "d", "2", "l", "j">>
HeicSignature ==
    <<"A", "A", "A", "A", "I", "G", "Z", "0", "e", "X", "B", "o", "Z", "W", "l", "j">>

\* String.prototype.startsWith
StartsWith(s, prefix) ==
    Len(s) >= Len(prefix) /\ SubSeq(s, 1, Len(prefix)) = prefix

\* Mutant of the detection: the WEBP branch is missing
DetectMimeTypeNoWebp(b) ==
    IF StartsWith(b, PngSignature) THEN "image/png"
    ELSE IF StartsWith(b, GifSignature) THEN "image/gif"
    ELSE IF StartsWith(b, JxlSignature) THEN "image/jxl"
    ELSE IF StartsWith(b, HeicSignature) THEN "image/heic"
    ELSE "image/jpeg"

DetectMimeType(b) ==
    IF StartsWith(b, PngSignature) THEN "image/png"
    ELSE IF StartsWith(b, GifSignature) THEN "image/gif"
    ELSE IF StartsWith(b, WebpSignature) THEN "image/webp"
    ELSE IF StartsWith(b, JxlSignature) THEN "image/jxl"
    ELSE IF StartsWith(b, HeicSignature) THEN "image/heic"
    ELSE "image/jpeg"

MaxPayloadChunks == 2

\* Pieces of base64 text: the five signatures, the start the two ISO-BMFF
\* signatures share, a cut-off PNG signature, and the starts of a JPEG and of
\* a BMP file
PayloadChunks ==
    {PngSignature, GifSignature, WebpSignature, JxlSignature, HeicSignature,
     <<"A", "A", "A", "A", "I", "G", "Z", "0", "e", "X", "B">>,
     <<"i", "V", "B", "O", "R">>,
     <<"/", "9", "j", "/">>,
     <<"Q", "k", "0">>}

Payloads == {Join(c) : c \in SeqsUpTo(PayloadChunks, MaxPayloadChunks)}

MimeInit ==
    /\ imageBase64 \in Payloads
    /\ mimeType = ""
    /\ ItemsIdle
    /\ OthersIdle
    /\ genAI = TRUE
    /\ pc = "sniffing"
    /\ retries = Retries
    /\ delay = InitialDelay
    /\ attempts = <<>>
    /\ waits = <<>>
    /\ result = NoResponse
    /\ content = <<>>
    /\ jsonContent = <<>>
    /\ parseAttempted = FALSE
    /\ returned = NoReceipt
    /\ thrown = NoError
    /\ failedAt = "none"

\* gemini.ts 108-120, after which the request is built and the call made
Sniff ==
    /\ pc = "sniffing"
    /\ mimeType' = DetectMimeType(imageBase64)
    /\ pc' = "calling"
    /\ UNCHANGED <<imageBase64, itemVars, pairVars, dbVars>>
    /\ UNCHANGED <<genAI, retries, delay, attempts, waits, result, content,
                   jsonContent, parseAttempted, returned, thrown, failedAt>>

MimeNext == Sniff

MimeSpec == MimeInit /\ [][MimeNext]_vars

Sniffed == pc = "calling" /\ mimeType # ""

\* p is written at the start of s
Begins(s, p) == Len(s) >= Len(p) /\ \A i \in 1..Len(p) : s[i] = p[i]

\* C20, as stated: the PNG, GIF, WEBP and HEIC prefixes give their types and
\* every other payload gives image/jpeg.
C20_FourSignaturesElseJpeg ==
    Sniffed =>
        mimeType = IF Begins(imageBase64, PngSignature) THEN "image/png"
                   ELSE IF Begins(imageBase64, GifSignature) THEN "image/gif"
                   ELSE IF Begins(imageBase64, WebpSignature) THEN "image/webp"
                   ELSE IF Begins(imageBase64, HeicSignature) THEN "image/heic"
                   ELSE "image/jpeg"

\* C20, amended: the PNG, GIF, WEBP, JPEG XL and HEIC prefixes give their
\* types and every payload that begins with none of the five gives image/jpeg.
C20_FiveSignaturesElseJpeg ==
    Sniffed =>
        mimeType = IF Begins(imageBase64, PngSignature) THEN "image/png"
                   ELSE IF Begins(imageBase64, GifSignature) THEN "image/gif"
                   ELSE IF Begins(imageBase64, WebpSignature) THEN "image/webp"
                   ELSE IF Begins(imageBase64, JxlSignature) THEN "image/jxl"
                   ELSE IF Begins(imageBase64, HeicSignature) THEN "image/heic"
                   ELSE "image/jpeg"

\* a payload that carries the JPEG XL signature has been sniffed
C20_Witness ==
    /\ Sniffed
    /\ Begins(imageBase64, JxlSignature)
    /\ Len(imageBase64) > Len(JxlSignature)
    /\ mimeType = "image/jxl"

----------------------------------------------------------------------------
(* Concurrent invocations.  Each call of parseReceiptImage has its own      *)
(* frame: imageBase64, mimeType and contents are locals (gemini.ts 44-138), *)
(* retries and delay are parameters of callWithRetry (gemini.ts 140); the   *)
(* module-level client genAI (gemini.ts 7-13) is the only thing they share, *)
(* and it is never assigned after the module has loaded.                    *)

InvocationIds == {"a", "b"}

PairImages == {PngSignature, <<"/", "9", "j", "/">>}

\* one rejection that carries the rate limit and one that does not
PairErrors ==
    {e \in UpstreamErrors : e.message = "Too Many Requests" /\ e.code = 0 /\ e.status # 0}

\* one response without text and one whose text parses
PairResponses ==
    {NoResponse, Response(Accessor("string", AccessorText), NoWrapper, NoCandidates)}

NewInvocation(image) ==
    [pc |-> "start", imageBase64 |-> image, mimeType |-> "",
     retries |-> Retries, delay |-> InitialDelay,
     attempts |-> <<>>, waits |-> <<>>, sent |-> <<>>,
     returned |-> NoReceipt, thrown |-> NoError]

\* Mutant of the request: a retry sends the default type
RequestOfDefaultOnRetry(inv) ==
    [mimeType |-> IF inv.sent = <<>> THEN inv.mimeType ELSE "image/jpeg",
     data |-> inv.imageBase64]

\* gemini.ts 122-138, 144-148: the inlineData part of `contents`, built once
\* and handed to every generateContent call of the invocation
RequestOf(inv) == [mimeType |-> inv.mimeType, data |-> inv.imageBase64]

PairInit ==
    /\ invocations \in [InvocationIds -> {NewInvocation(image) : image \in PairImages}]
    /\ genAI \in BOOLEAN
    /\ ItemsIdle
    /\ SniffIdle
    /\ DbIdle
    /\ pc = "start"
    /\ retries = Retries
    /\ delay = InitialDelay
    /\ attempts = <<>>
    /\ waits = <<>>
    /\ result = NoResponse
    /\ content = <<>>
    /\ jsonContent = <<>>
    /\ parseAttempted = FALSE
    /\ returned = NoReceipt
    /\ thrown = NoError
    /\ failedAt = "none"

\* invocation i moves to `inv`; nothing else changes
Becomes(i, inv) ==
    /\ invocations' = [invocations EXCEPT ![i] = inv]
    /\ UNCHANGED <<pipelineVars, itemVars, sniffVars, dbVars>>

\* gemini.ts 47-49
CredentialMissingOf(i) ==
    /\ invocations[i].pc = "start"
    /\ ~genAI
    /\ Becomes(i, [invocations[i] EXCEPT !.pc = "done", !.thrown = Unwrapped(ConfigMsg)])

\* gemini.ts 108-161: the type is sniffed, the request built, the first call made
BeginOf(i) ==
    /\ invocations[i].pc = "start"
    /\ genAI
    /\ LET sniffed == [invocations[i] EXCEPT
                          !.mimeType = DetectMimeType(invocations[i].imageBase64)]
       IN  Becomes(i, [sniffed EXCEPT !.pc = "calling",
                                      !.sent = <<RequestOf(sniffed)>>])

\* generateContent resolves and the rest of parseReceiptImage runs
ResolveOf(i) ==
    /\ invocations[i].pc = "calling"
    /\ \E r \in PairResponses :
          \E o \in {ProcessResponse(r)} :
              Becomes(i, [invocations[i] EXCEPT
                              !.pc = "done",
                              !.attempts = Append(@, Succeeded),
                              !.returned = o.returned,
                              !.thrown = o.thrown])

\* gemini.ts 151-153
RateLimitedOf(i) ==
    /\ invocations[i].pc = "calling"
    /\ \E e \in PairErrors :
          /\ ShouldRetry(invocations[i].retries, e)
          /\ Becomes(i, [invocations[i] EXCEPT
                            !.pc = "waiting",
                            !.attempts = Append(@, Failed(e)),
                            !.waits = Append(@, invocations[i].delay)])

\* gemini.ts 156, 247-252
FailOf(i) ==
    /\ invocations[i].pc = "calling"
    /\ \E e \in PairErrors :
          /\ ~ShouldRetry(invocations[i].retries, e)
          /\ Becomes(i, [invocations[i] EXCEPT
                            !.pc = "done",
                            !.attempts = Append(@, Failed(e)),
                            !.thrown = Wrap(e.message)])

\* Mutant of the timer: retries and delay are module-level variables that
\* every invocation reads and writes
TimerFiresOfSharedCounters(i) ==
    /\ invocations[i].pc = "waiting"
    /\ invocations' =
          [j \in InvocationIds |->
              IF j = i
              THEN [invocations[i] EXCEPT
                       !.pc = "calling",
                       !.retries = @ - 1,
                       !.delay = NextDelay(@),
                       !.sent = Append(@, RequestOf(invocations[i]))]
              ELSE [invocations[j] EXCEPT !.retries = @ - 1, !.delay = NextDelay(@)]]
    /\ UNCHANGED <<pipelineVars, itemVars, sniffVars, dbVars>>

\* gemini.ts 154: callWithRetry(retries - 1, delay * 2) calls generateContent
\* with the same contents
TimerFiresOf(i) ==
    /\ invocations[i].pc = "waiting"
    /\ Becomes(i, [invocations[i] EXCEPT
                      !.pc = "calling",
                      !.retries = @ - 1,
                      !.delay = NextDelay(@),
                      !.sent = Append(@, RequestOf(invocations[i]))])

CredentialMissingAny == \E i \in InvocationIds : CredentialMissingOf(i)
BeginAny == \E i \in InvocationIds : BeginOf(i)
ResolveAny == \E i \in InvocationIds : ResolveOf(i)
RateLimitedAny == \E i \in InvocationIds : RateLimitedOf(i)
FailAny == \E i \in InvocationIds : FailOf(i)
TimerFiresAny == \E i \in InvocationIds : TimerFiresOf(i)

PairNext ==
    \/ CredentialMissingAny
    \/ BeginAny
    \/ ResolveAny
    \/ RateLimitedAny
    \/ FailAny
    \/ TimerFiresAny

PairSpec == PairInit /\ [][PairNext]_vars

\* the number of rejections carrying 429 that invocation i has seen itself
Own429(i) ==
    Cardinality({k \in 1..Len(invocations[i].attempts) :
                    Carries429(invocations[i].attempts[k])})

\* the retry budget, the delays and the outcome of i follow from what i itself
\* has seen
OwnHistoryDecides(i) ==
    LET inv == invocations[i]
        last == inv.attempts[Len(inv.attempts)]
        \* the timers of i that have fired
        fired == Len(inv.waits) - (IF inv.pc = "waiting" THEN 1 ELSE 0)
    IN  /\ Len(inv.waits) = (IF Own429(i) > Retries THEN Retries ELSE Own429(i))
        /\ inv.retries = Retries - fired
        /\ inv.delay = Doubled(InitialDelay, fired)
        /\ \A k \in 1..Len(inv.waits) : inv.waits[k] = Doubled(InitialDelay, k - 1)
        /\ (inv.pc = "done" /\ inv.attempts # <<>>) =>
              /\ last.ok => (inv.returned.present \/ inv.thrown.message = EmptyMsg)
              /\ Carries429(last) => Own429(i) = Retries + 1
              /\ ~last.ok => (inv.thrown.wrapped /\ ~inv.returned.present)

\* a step changes one invocation only
OneInvocationMoves ==
    \A i \in InvocationIds :
        invocations'[i] # invocations[i] =>
            \A j \in InvocationIds \ {i} : invocations'[j] = invocations[j]

\* C23: concurrent invocations are independent under every interleaving: the
\* retry budget, the delays and the outcome of each follow from the failures
\* it has seen itself, and no step of one changes another.
C23_InvocationsIndependent ==
    /\ [](\A i \in InvocationIds : OwnHistoryDecides(i))
    /\ [][OneInvocationMoves]_vars

\* one invocation has used up its retries while the other made a single call
\* and got its receipt
C23_Witness ==
    /\ Own429("a") = Retries + 1
    /\ invocations["a"].pc = "done"
    /\ invocations["b"].pc = "done"
    /\ Len(invocations["b"].attempts) = 1
    /\ invocations["b"].returned.present

\* C24: every inference call of an invocation, retries included, is sent the
\* image it was given and the type sniffed from it, whatever the outcome.
C24_SameRequestEveryCall ==
    \A i \in InvocationIds :
        LET inv == invocations[i]
        IN  /\ \A k \in 1..Len(inv.sent) :
                  /\ inv.sent[k].data = inv.imageBase64
                  /\ inv.sent[k].mimeType = DetectMimeType(inv.imageBase64)
                  /\ inv.sent[k] = inv.sent[1]
            /\ Len(inv.sent) = Len(inv.attempts) + (IF inv.pc = "calling" THEN 1 ELSE 0)

\* a PNG was sent four times and the call that resolved had no usable text
C24_Witness ==
    /\ invocations["a"].pc = "done"
    /\ Len(invocations["a"].sent) = Retries + 1
    /\ invocations["a"].sent[Retries + 1].mimeType = "image/png"
    /\ invocations["a"].thrown.message = EmptyMsg
    /\ invocations["b"].returned.present

----------------------------------------------------------------------------
(* Every throw site of parseReceiptImage in one specification: an          *)
(* invocation either starts at the credential check, or stands right after *)
(* JSON.parse with the item clean-up still to run.                         *)

FailInit == Init \/ ItemInit

FailNext == Next \/ ItemNext

FailSpec == FailInit /\ [][FailNext]_vars

\* the stages a failure can come from, and the messages raised there
Stages == {"credential", "inference", "empty", "nojson", "jsonparse", "cleanup"}

StageMessages(stage) ==
    CASE stage = "credential" -> {ConfigMsg}
      [] stage = "inference" -> UpstreamMessages
      [] stage = "empty" -> {EmptyMsg}
      [] stage = "nojson" -> {NoJsonMsg}
      [] stage = "jsonparse" -> {EndOfInputMsg, UnexpectedTokenMsg}
      [] stage = "cleanup" -> {NullMemberMsg, NotAFunctionMsg}

\* the prefix is on every failure but the missing credential, and what
\* follows it is a message raised at the stage that failed
PrefixedUnlessCredential ==
    thrown.present =>
        /\ failedAt \in Stages
        /\ thrown.message \in StageMessages(failedAt)
        /\ thrown.wrapped <=> failedAt # "credential"

----------------------------------------------------------------------------
(* The relational store behind the routers: tables are sets of rows, a     *)
(* statement is atomic, and a column holds SQL NULL or a value.            *)

SqlNull == [null |-> TRUE, v |-> 0]
Sql(v) == [null |-> FALSE, v |-> v]

\* gen_random_uuid(): an id no row of the table has
RowIds == {"r1", "r2", "r3", "r4"}
HasFreshId(table) == \E id \in RowIds : \A row \in table : row.id # id
FreshId(table) == CHOOSE id \in RowIds : \A row \in table : row.id # id

Users == {"u1", "u2"}
StoredProducts ==
    {[id |-> "x", name |-> "milk", barcode |-> SqlNull],
     [id |-> "y", name |-> "eggs", barcode |-> SqlNull]}
\* product ids a caller may send; "z" is a well-formed id of no product
ProductIdInputs == {"x", "y", "z"}
Stores == {"store"}
StoreIdInputs == {"store", "nostore"}

\* REFERENCES products(id)
ProductStored(d, id) == \E p \in d.products : p.id = id

\* the pipeline and the concurrent invocations are not under study
PipelineIdle ==
    /\ genAI = TRUE
    /\ pc = "start"
    /\ retries = Retries
    /\ delay = InitialDelay
    /\ attempts = <<>>
    /\ waits = <<>>
    /\ result = NoResponse
    /\ content = <<>>
    /\ jsonContent = <<>>
    /\ parseAttempted = FALSE
    /\ returned = NoReceipt
    /\ thrown = NoError
    /\ failedAt = "none"
    /\ ItemsIdle
    /\ SniffIdle
    /\ PairIdle

StoreOnly == UNCHANGED <<pipelineVars, itemVars, sniffVars, pairVars>>

----------------------------------------------------------------------------
(* Bookmarks: create is an upsert on (user_id, product_id), delete removes *)
(* the caller's rows of the product.                                       *)

\* input.targetPrice || null
TargetPriceColumn(targetPrice) ==
    IF Truthy(targetPrice) THEN Sql(targetPrice.n) ELSE SqlNull

SameKey(b, values) ==
    b.user_id = values.user_id /\ b.product_id = values.product_id

\* INSERT with no ON CONFLICT clause and no unique constraint to stop it
PlainInsert(bookmarks, values) ==
    bookmarks \cup
        {[id |-> FreshId(bookmarks), user_id |-> values.user_id,
          product_id |-> values.product_id,
          notify_on_price_drop |-> values.notify_on_price_drop,
          target_price |-> values.target_price]}

\* INSERT ... ON CONFLICT (user_id, product_id) DO UPDATE SET ...
Upsert(bookmarks, values) ==
    IF \E b \in bookmarks : SameKey(b, values)
    THEN {IF SameKey(b, values)
          THEN [b EXCEPT !.notify_on_price_drop = values.notify_on_price_drop,
                         !.target_price = values.target_price]
          ELSE b : b \in bookmarks}
    ELSE bookmarks \cup
            {[id |-> FreshId(bookmarks), user_id |-> values.user_id,
              product_id |-> values.product_id,
              notify_on_price_drop |-> values.notify_on_price_drop,
              target_price |-> values.target_price]}

BookmarkInput(productId, notify, targetPrice) ==
    [productId |-> productId, notifyOnPriceDrop |-> notify,
     targetPrice |-> targetPrice]

\* with and without a target, a target of 0, and a product that is not stored
BookmarkCreateInputs ==
    {BookmarkInput("x", TRUE, Undefined), BookmarkInput("x", FALSE, Num(2)),
     BookmarkInput("y", TRUE, Num(2)), BookmarkInput("y", FALSE, Num(0)),
     BookmarkInput("z", TRUE, Undefined)}

\* the latest router call: who called what, and whether it threw
Call(op, user, input, threw) ==
    [op |-> op, user |-> user, input |-> input, threw |-> threw]

BookmarkInit ==
    /\ PipelineIdle
    /\ db = [EmptyDb EXCEPT !.products = StoredProducts]
    /\ sessions = <<>>

BookmarkCreate(user, input) ==
    LET values == [user_id |-> user, product_id |-> input.productId,
                   notify_on_price_drop |-> input.notifyOnPriceDrop,
                   target_price |-> TargetPriceColumn(input.targetPrice)]
    IN  /\ HasFreshId(db.bookmarks)
        /\ IF ProductStored(db, input.productId)
           THEN /\ db' = [db EXCEPT !.bookmarks = Upsert(db.bookmarks, values)]
                /\ sessions' = <<Call("create", user, input, FALSE)>>
           ELSE /\ UNCHANGED db
                /\ sessions' = <<Call("create", user, input, TRUE)>>
        /\ StoreOnly

\* ON DELETE CASCADE takes the alerts of a removed bookmark with it
BookmarkDelete(user, input) ==
    LET removed == {b \in db.bookmarks :
                        b.user_id = user /\ b.product_id = input.productId}
    IN  /\ db' = [db EXCEPT
                    !.bookmarks = db.bookmarks \ removed,
                    !.price_alerts =
                        {a \in db.price_alerts :
                            \A b \in removed : a.bookmark_id # b.id}]
        /\ sessions' = <<Call("delete", user, input, FALSE)>>
        /\ StoreOnly

BookmarkNext ==
    \/ \E user \in Users, input \in BookmarkCreateInputs :
            BookmarkCreate(user, input)
    \/ \E user \in Users, productId \in ProductIdInputs :
            BookmarkDelete(user, [productId |-> productId])

BookmarkSpec == BookmarkInit /\ [][BookmarkNext]_vars

BookmarksOf(d, user, productId) ==
    {b \in d.bookmarks : b.user_id = user /\ b.product_id = productId}

OnePerPair ==
    \A user \in Users, productId \in ProductIdInputs :
        Cardinality(BookmarksOf(db, user, productId)) <= 1

LatestCall == sessions'[1]

\* rows of every pair but the call's own are as they were
OthersKept(call) ==
    \A user \in Users, productId \in ProductIdInputs :
        (user # call.user \/ productId # call.input.productId) =>
            BookmarksOf(db', user, productId) = BookmarksOf(db, user, productId)

CreateReplaces ==
    (sessions' # sessions /\ LatestCall.op = "create" /\ ~LatestCall.threw) =>
        LET before == BookmarksOf(db, LatestCall.user, LatestCall.input.productId)
            after == BookmarksOf(db', LatestCall.user, LatestCall.input.productId)
        IN  /\ Cardinality(after) = 1
            /\ \A b \in after :
                /\ b.notify_on_price_drop = LatestCall.input.notifyOnPriceDrop
                /\ LatestCall.input.targetPrice = Num(2) => b.target_price = Sql(2)
                /\ LatestCall.input.targetPrice = Undefined => b.target_price = SqlNull
                /\ \A old \in before : old.id = b.id
            /\ before # {} => Cardinality(db'.bookmarks) = Cardinality(db.bookmarks)
            /\ OthersKept(LatestCall)

DeleteRemovesOwn ==
    (sessions' # sessions /\ LatestCall.op = "delete") =>
        /\ BookmarksOf(db', LatestCall.user, LatestCall.input.productId) = {}
        /\ OthersKept(LatestCall)

\* C28: after any sequence of bookmark create and delete calls there is at
\* most one bookmark per (user, product) pair; a create on an existing pair
\* replaces the notify flag and the target price of the row that is there,
\* and a delete removes the caller's bookmark of that product and no other.
C28_OneBookmarkPerUserAndProduct ==
    /\ []OnePerPair
    /\ [][CreateReplaces /\ DeleteRemovesOwn]_vars

\* u1 has re-created its bookmark on x with a target, then deleted the one on
\* y, while u2 keeps bookmarks on both products
C28_Witness ==
    /\ sessions = <<Call("delete", "u1", [productId |-> "y"], FALSE)>>
    /\ Cardinality(db.bookmarks) = 3
    /\ \E b \in db.bookmarks :
            /\ b.user_id = "u1" /\ b.product_id = "x"
            /\ b.target_price = Sql(2) /\ ~b.notify_on_price_drop
    /\ BookmarksOf(db, "u2", "x") # {}
    /\ BookmarksOf(db, "u2", "y") # {}

----------------------------------------------------------------------------
(* Price rows and the alert trigger: check_price_drop_alerts runs AFTER    *)
(* INSERT for each row, once the statement has stored all of its rows.     *)

Minimum(S) == CHOOSE m \in S : \A n \in S : m <= n

\* MIN(price) over every row of the product, the new one among them
PrevPriceWithNew(prices, new) ==
    LET others == {p.price : p \in {q \in prices : q.product_id = new.product_id}}
    IN  IF others = {} THEN SqlNull ELSE Sql(Minimum(others))

\* SELECT MIN(price) ... WHERE product_id = NEW.product_id AND id != NEW.id
PrevPrice(prices, new) ==
    LET others == {p.price : p \in {q \in prices : q.product_id = new.product_id /\ q.id # new.id}}
    IN  IF others = {} THEN SqlNull ELSE Sql(Minimum(others))

AlertRow(bookmark, new, type, prev) ==
    [user_id |-> bookmark.user_id, bookmark_id |-> bookmark.id,
     product_id |-> new.product_id, price_id |-> new.id, alert_type |-> type,
     old_price |-> prev, new_price |-> new.price]

\* the alerts one run of the trigger function inserts
CheckPriceDropAlerts(d, new) ==
    LET prev == PrevPrice(d.prices, new)
        notified == {b \in d.bookmarks :
                        b.product_id = new.product_id /\ b.notify_on_price_drop}
    IN  UNION {(IF ~prev.null /\ new.price < prev.v
                THEN {AlertRow(b, new, "price_drop", prev)} ELSE {})
               \cup
               (IF ~b.target_price.null /\ new.price <= b.target_price.v
                THEN {AlertRow(b, new, "target_reached", prev)} ELSE {})
               : b \in notified}

PriceRow(id, record) ==
    [id |-> id, product_id |-> record.product_id, store_id |-> record.store_id,
     user_id |-> record.user_id, price |-> record.price,
     receipt_id |-> record.receipt_id]

RECURSIVE WithRows(_, _, _)
WithRows(prices, records, i) ==
    IF i > Len(records) THEN prices
    ELSE WithRows(prices \cup {PriceRow(FreshId(prices), records[i])}, records, i + 1)

\* NOT NULL REFERENCES products(id), REFERENCES stores(id), CHECK (price > 0)
Insertable(d, record) ==
    /\ ProductStored(d, record.product_id)
    /\ record.store_id \in Stores
    /\ record.price > 0

\* one INSERT INTO prices: every row or none, then the trigger for each row
InsertPrices(d, records) ==
    IF \A i \in 1..Len(records) : Insertable(d, records[i])
    THEN LET stored == WithRows(d.prices, records, 1)
             after == [d EXCEPT !.prices = stored]
             alerts == UNION {CheckPriceDropAlerts(after, new) : new \in stored \ d.prices}
         IN  [error |-> FALSE, data |-> stored \ d.prices,
              db |-> [after EXCEPT !.price_alerts = d.price_alerts \cup alerts]]
    ELSE [error |-> TRUE, data |-> {}, db |-> d]

HasFreshIds(table, n) == Cardinality(table) + n <= Cardinality(RowIds)

Bookmark(id, user, productId, notify, target) ==
    [id |-> id, user_id |-> user, product_id |-> productId,
     notify_on_price_drop |-> notify, target_price |-> target]

\* bookmark tables the create and delete calls can leave behind
AlertBookmarkTables ==
    {first \cup second \cup third :
        first \in {{}, {Bookmark("r1", "u1", "x", TRUE, SqlNull)},
                   {Bookmark("r1", "u1", "x", TRUE, Sql(2))},
                   {Bookmark("r1", "u1", "x", FALSE, Sql(2))}},
        second \in {{}, {Bookmark("r2", "u2", "x", TRUE, Sql(2))}},
        third \in {{}, {Bookmark("r3", "u1", "y", TRUE, SqlNull)}}}

PriceInputs == 1..3
PricesAddInputs ==
    [productId : ProductIdInputs, storeId : StoreIdInputs, price : PriceInputs]

AlertInit ==
    /\ PipelineIdle
    /\ \E bookmarks \in AlertBookmarkTables :
            db = [EmptyDb EXCEPT !.products = StoredProducts,
                                 !.bookmarks = bookmarks]
    /\ sessions = <<>>

PricesAdd(user, input) ==
    LET statement == InsertPrices(db,
            <<[product_id |-> input.productId, store_id |-> input.storeId,
               user_id |-> user, price |-> input.price, receipt_id |-> SqlNull]>>)
    IN  /\ HasFreshIds(db.prices, 1)
        /\ db' = statement.db
        /\ UNCHANGED sessions
        /\ StoreOnly

AlertNext == \E input \in PricesAddInputs : PricesAdd("u2", input)

AlertSpec == AlertInit /\ [][AlertNext]_vars

AlertCreated(type, b, new) ==
    \E a \in db'.price_alerts \ db.price_alerts :
        /\ a.alert_type = type
        /\ a.user_id = b.user_id
        /\ a.bookmark_id = b.id
        /\ a.price_id = new.id

OtherPrices(new) ==
    {o \in db'.prices : o.product_id = new.product_id /\ o.id # new.id}

AlertsAsConditionsSay ==
    \A new \in db'.prices \ db.prices, b \in db.bookmarks :
        /\ (b.product_id = new.product_id /\ b.notify_on_price_drop) =>
              /\ AlertCreated("price_drop", b, new) <=>
                    /\ OtherPrices(new) # {}
                    /\ \A o \in OtherPrices(new) : new.price < o.price
              /\ AlertCreated("target_reached", b, new) <=>
                    /\ ~b.target_price.null
                    /\ new.price <= b.target_price.v
        /\ b.product_id # new.product_id =>
              \A a \in db'.price_alerts \ db.price_alerts : a.bookmark_id # b.id

----------------------------------------------------------------------------
(* Receipts bulkSave: one statement stores the receipt, a second one the   *)
(* price rows linked to it.                                                *)

ReceiptRow(id, user, input) ==
    [id |-> id, user_id |-> user, store_id |-> input.storeId]

BulkItems == [productId : {"x", "z"}, price : 1..2]
BulkSaveInputs ==
    [storeId : StoreIdInputs,
     items : {<<first>> : first \in BulkItems} \cup
             {<<first, second>> : first \in BulkItems, second \in BulkItems}]

\* input.items.map(...): one record per item, linked to the receipt
PriceRecords(user, input, receiptId) ==
    [i \in 1..Len(input.items) |->
        [product_id |-> input.items[i].productId, store_id |-> input.storeId,
         user_id |-> user, price |-> input.items[i].price,
         receipt_id |-> Sql(receiptId)]]

NoReturn == [present |-> FALSE, saved |-> 0, receiptId |-> ""]

ReceiptInit ==
    /\ PipelineIdle
    /\ db = [EmptyDb EXCEPT
                !.products = StoredProducts,
                !.bookmarks = {Bookmark("r1", "u1", "x", TRUE, Sql(2))}]
    /\ sessions = <<>>

\* the call up to the receipt insert and the check of receiptError
BulkSaveReceipt(user, input) ==
    LET id == FreshId(db.receipts)
        call == [op |-> "bulkSave", user |-> user, input |-> input,
                 pc |-> "prices", receipt |-> id, threw |-> FALSE,
                 returned |-> NoReturn]
    IN  /\ IF sessions = <<>> THEN TRUE ELSE sessions[1].pc = "done"
        /\ HasFreshId(db.receipts)
        /\ IF input.storeId \in Stores
           THEN /\ db' = [db EXCEPT !.receipts = db.receipts \cup {ReceiptRow(id, user, input)}]
                /\ sessions' = <<call>>
           ELSE /\ UNCHANGED db
                /\ sessions' = <<[call EXCEPT !.pc = "done", !.receipt = "", !.threw = TRUE]>>
        /\ StoreOnly

\* the price insert, the check of its error, and the return
BulkSavePrices ==
    /\ sessions # <<>>
    /\ sessions[1].pc = "prices"
    /\ HasFreshIds(db.prices, Len(sessions[1].input.items))
    /\ LET call == sessions[1]
           statement == InsertPrices(db, PriceRecords(call.user, call.input, call.receipt))
       IN  /\ db' = statement.db
           /\ sessions' =
                IF statement.error
                THEN <<[call EXCEPT !.pc = "done", !.threw = TRUE]>>
                ELSE <<[call EXCEPT !.pc = "done",
                                    !.returned = [present |-> TRUE,
                                                  saved |-> Cardinality(statement.data),
                                                  receiptId |-> call.receipt]]>>
    /\ StoreOnly

ReceiptNext ==
    \/ \E input \in BulkSaveInputs : BulkSaveReceipt("u2", input)
    \/ BulkSavePrices

ReceiptSpec == ReceiptInit /\ [][ReceiptNext]_vars

BulkSaveDone == sessions # <<>> /\ sessions[1].pc = "done"

LinkedPrices(call) == {p \in db.prices : p.receipt_id = Sql(call.receipt)}

\* C30: bulkSave is all-or-nothing: a call that fails leaves no receipt of
\* its own stored; a call that succeeds leaves the receipt and one price row
\* per input item, each linked to the receipt, and returns the item count.
C30_AllOrNothing ==
    BulkSaveDone =>
        LET call == sessions[1]
        IN  /\ call.threw =>
                  \A r \in db.receipts : r.id # call.receipt
            /\ ~call.threw =>
                  /\ \E r \in db.receipts : r.id = call.receipt
                  /\ Cardinality(LinkedPrices(call)) = Len(call.input.items)
                  /\ \A i \in 1..Len(call.input.items) :
                        \E p \in LinkedPrices(call) :
                            /\ p.product_id = call.input.items[i].productId
                            /\ p.price = call.input.items[i].price
                  /\ call.returned.saved = Len(call.input.items)
                  /\ call.returned.receiptId = call.receipt

----------------------------------------------------------------------------
(* Products getOrCreate: a select by name, then an insert when the select  *)
(* gave no row; each is a statement of its own, and calls interleave       *)
(* between the two.                                                        *)

SessionIds == {"s1", "s2"}
\* names without wildcard characters, in one case
ProductNames == {"milk", "eggs"}

NoRow == [id |-> "", name |-> "", barcode |-> SqlNull]

\* .ilike("name", input.name)
ILike(value, pattern) == value = pattern

\* .single(): the row when exactly one matches, else no data
Single(rows) ==
    IF Cardinality(rows) = 1 THEN CHOOSE row \in rows : TRUE ELSE NoRow

IdleSession == [pc |-> "idle", name |-> "", returned |-> NoRow]

ProductInit ==
    /\ PipelineIdle
    /\ db = EmptyDb
    /\ sessions = [s \in SessionIds |-> IdleSession]

\* the call up to `if (product) return product`, with no barcode sent
GetOrCreateSelect(s, name) ==
    LET product == Single({p \in db.products : ILike(p.name, name)})
    IN  /\ sessions[s].pc \in {"idle", "done"}
        /\ sessions' =
              [sessions EXCEPT ![s] =
                  IF product # NoRow
                  THEN [pc |-> "done", name |-> name, returned |-> product]
                  ELSE [pc |-> "insert", name |-> name, returned |-> NoRow]]
        /\ UNCHANGED db
        /\ StoreOnly

\* the insert of the new product, returned to the caller
GetOrCreateInsert(s) ==
    LET row == [id |-> FreshId(db.products), name |-> sessions[s].name,
                barcode |-> SqlNull]
    IN  /\ sessions[s].pc = "insert"
        /\ HasFreshId(db.products)
        /\ db' = [db EXCEPT !.products = db.products \cup {row}]
        /\ sessions' = [sessions EXCEPT ![s] = [@ EXCEPT !.pc = "done", !.returned = row]]
        /\ StoreOnly

ProductNext ==
    \/ \E s \in SessionIds, name \in ProductNames : GetOrCreateSelect(s, name)
    \/ \E s \in SessionIds : GetOrCreateInsert(s)

ProductSpec == ProductInit /\ [][ProductNext]_vars

\* C29: after any interleaving of concurrent getOrCreate calls with the same
\* name and no barcode, the products table holds at most one product of that
\* name, and every one of the calls has returned that product.
C29_OneProductPerName ==
    \A name \in ProductNames :
        /\ Cardinality({p \in db.products : p.name = name}) <= 1
        /\ \A s \in SessionIds :
              (sessions[s].pc = "done" /\ sessions[s].name = name) =>
                  sessions[s].returned \in db.products
        /\ \A s \in SessionIds, t \in SessionIds :
              (/\ sessions[s].pc = "done" /\ sessions[s].name = name
               /\ sessions[t].pc = "done" /\ sessions[t].name = name) =>
                  sessions[s].returned = sessions[t].returned

====
